---- MODULE Spec2Model ----
(***************************************************************************)
(* Model of terraform-provider-vaultoperator: the provider's configure     *)
(* function (provider.go) and the vaultoperator_init resource              *)
(* (create / read / update / delete / import and updateState).             *)
(*                                                                         *)
(* Go structs are records of a fixed shape; a nil pointer is the zero      *)
(* record with nil = TRUE.  Text that the code inspects character by       *)
(* character (import ids, file paths) is a sequence of one-character       *)
(* strings; text that is only compared or concatenated is a string.        *)
(***************************************************************************)
EXTENDS Integers, Sequences, FiniteSets, TLC

VARIABLES
    cfg,        \* provider configuration handed to the last configure call
    env,        \* process environment (VAULT_ADDR, HOME) the last configure ran in
    meta,       \* *apiClient returned by configure (nil = TRUE when none)
    tlsArg,     \* api.TLSConfig handed to ConfigureTLS by the last configure
    d,          \* schema.ResourceData of the init resource
    vault,      \* the Vault service behind the client
    op,         \* name of the last operation that ran
    diags,      \* error returned by the last operation ("" = none)
    calls,      \* external calls made by the last operation, in order
    rpc,        \* request, response and error of the last Init RPC
    fileRead,   \* path and content of the last ioutil.ReadFile
    importId,   \* identifier handed to the last import
    imported    \* number of resources returned by the last import

vars == <<cfg, env, meta, tlsArg, d, vault, op, diags, calls, rpc, fileRead, importId, imported>>

(***************************************************************************)
(* Bounds                                                                  *)
(***************************************************************************)
MaxShares == 2

(***************************************************************************)
(* provider.go: constants                                                  *)
(***************************************************************************)
envVaultAddr      == "VAULT_ADDR"
argVaultUrl       == "vault_url"
argVaultAddr      == "vault_addr"
argKubeConfig     == "kube_config"
argKubeConfigPath == "path"
argNameSpace      == "namespace"
argServiceName    == "service"
argLocalPort      == "local_port"
argRemotePort     == "remote_port"
argUseTLS         == "use_tls"
argCaCert         == "ca_cert"
argClientCert     == "client_cert"
argClientKey      == "client_key"
argInsecureTLS    == "use_insecure_tls"

\* Fields of the kube_config block that only the TLS-aware provider declares.
tlsArgs == {argUseTLS, argCaCert, argClientCert, argClientKey, argInsecureTLS}

(***************************************************************************)
(* Struct zero values                                                      *)
(***************************************************************************)
\* type kubeConn struct: kubeConfig is the path the rest.Config was built
\* from (<<>> = nil), kubeClient whether a Clientset was built.
ZeroKubeConn ==
    [nameSpace |-> "", serviceName |-> "", localPort |-> "", remotePort |-> "",
     kubeConfig |-> <<>>, kubeClient |-> FALSE]

\* type tlsConfig struct
ZeroTlsConfig == [caCert |-> "", clientCert |-> "", clientKey |-> "", insecure |-> FALSE]

\* api.TLSConfig as passed to ConfigureTLS; applied = FALSE when no call was made.
NoTLS == [applied |-> FALSE, CACert |-> "", ClientCert |-> "", ClientKey |-> "", Insecure |-> FALSE]

\* *api.Client: the address it was constructed for and the TLS configuration
\* applied to its api.Config beforehand.
NilVaultClient == [address |-> "", tls |-> NoTLS]

\* type apiClient struct; a := &apiClient{}
ZeroApiClient ==
    [nil |-> FALSE, client |-> NilVaultClient, url |-> "", kubeConn |-> ZeroKubeConn,
     tlsAdded |-> FALSE, tlsConfig |-> ZeroTlsConfig]

NilApiClient == [ZeroApiClient EXCEPT !.nil = TRUE]

(***************************************************************************)
(* providerSchema: defaults of the kube_config block.  A field with no     *)
(* Default reads as the zero value of its type.                            *)
(***************************************************************************)
providerSchema ==
    [path             |-> <<"~", "/.kube/config">>,
     namespace        |-> "",
     service          |-> "",
     local_port       |-> "8200",
     remote_port      |-> "8200",
     use_tls          |-> FALSE,
     ca_cert          |-> FALSE,
     client_cert      |-> FALSE,
     client_key       |-> FALSE,
     use_insecure_tls |-> TRUE]

\* kubeConn[name] of a configured block: the configured value when the block
\* gives one, the schema default otherwise.
BlockGet(block, name) ==
    IF name \in block.given THEN block.v[name] ELSE providerSchema[name]

(***************************************************************************)
(* Helpers of configure                                                    *)
(***************************************************************************)
\* strings.Contains(path, "~") on a path made of tokens
Contains(path, tok) == \E i \in 1..Len(path) : path[i] = tok

\* strings.Replace(path, "~", homeDir, -1)
Replace(path, tok, by) == [i \in 1..Len(path) |-> IF path[i] = tok THEN by ELSE path[i]]

\* func homeDir() (string, error)
homeDir(e) ==
    IF e.HOME # "" THEN [dir |-> e.HOME, err |-> ""]
    ELSE [dir |-> "", err |-> "unable to get HOME directory"]

errNamespace   == "Vault namespace is not specified"
errServiceName == "Vault service name is not specified"
errNoAddress   == "argument 'vault_url' is required, or set VAULT_ADDR environment variable"
errBuildConfig == "clientcmd.BuildConfigFromFlags failed"
errNewForConfig == "kubernetes.NewForConfig failed"
errConfigureTLS == "api.Config.ConfigureTLS failed"
errNewClient   == "api.NewClient failed"

\* return nil, diag...
ConfigureFail(err, made) ==
    [a |-> NilApiClient, diags |-> err, calls |-> made, tls |-> NoTLS]

\* configure, from the a.url == "" test to the return: `made` is the list of
\* external calls made so far, `fail` the set of library calls that return
\* an error in this run.
configureClient(a, made, fail) ==
    IF a.url = "" THEN ConfigureFail(errNoAddress, made)
    ELSE
      LET tls == IF a.tlsAdded
                 THEN [applied |-> TRUE,
                       CACert |-> a.tlsConfig.caCert,
                       ClientCert |-> a.tlsConfig.clientCert,
                       ClientKey |-> a.tlsConfig.clientKey,
                       Insecure |-> a.tlsConfig.insecure]
                 ELSE NoTLS
          made1 == IF a.tlsAdded THEN Append(made, "ConfigureTLS") ELSE made
      IN IF a.tlsAdded /\ "ConfigureTLS" \in fail
         THEN [a |-> NilApiClient, diags |-> errConfigureTLS, calls |-> made1, tls |-> tls]
         ELSE IF "NewClient" \in fail
         THEN [a |-> NilApiClient, diags |-> errNewClient,
               calls |-> Append(made1, "NewClient"), tls |-> tls]
         ELSE [a |-> [a EXCEPT !.client = [address |-> a.url, tls |-> tls]],
               diags |-> "", calls |-> Append(made1, "NewClient"), tls |-> tls]

\* Variant of directAddress: the deprecated vault_url is consulted first
directAddressUrlFirst(c, e) ==
    IF c.vault_url # "" THEN c.vault_url
    ELSE IF c.vault_addr # "" THEN c.vault_addr
    ELSE e.VAULT_ADDR

\* configure, the branch taken when no kube_config block is given
directAddress(c, e) ==
    IF c.vault_addr # "" THEN c.vault_addr
    ELSE IF c.vault_url # "" THEN c.vault_url
    ELSE e.VAULT_ADDR

\* Variant of validateKube: only the service name is validated
validateKubeServiceOnly(nsName, service) ==
    IF service = "" THEN errServiceName ELSE ""

\* configure, the two mandatory fields of the kube_config block: the error
\* returned for the block, "" when it is accepted.
validateKube(nsName, service) ==
    IF nsName = "" THEN errNamespace
    ELSE IF service = "" THEN errServiceName
    ELSE ""

\* Variant of tunnelAddress: the scheme does not follow use_tls
tunnelAddressHttpOnly(useTLS, localPort) == "http://localhost:" \o localPort

\* configure, the address of the forwarded port
tunnelAddress(useTLS, localPort) ==
    IF useTLS THEN "https://localhost:" \o localPort
    ELSE "http://localhost:" \o localPort

\* configure, the tlsConfig recorded for a block that asks for TLS
tunnelTlsConfig(kubeConn) ==
    [caCert |-> "", clientCert |-> "", clientKey |-> "", insecure |-> FALSE]

\* configure, the kube_config branch up to the validation of the block;
\* withTLS tells whether the build reads use_tls.
configureKube(kubeConn, e, fail, withTLS) ==
    LET path0    == BlockGet(kubeConn, argKubeConfigPath)
        expand   == Contains(path0, "~")
        home     == homeDir(e)
        path     == IF expand THEN Replace(path0, "~", home.dir) ELSE path0
        nsName   == BlockGet(kubeConn, argNameSpace)
        service  == BlockGet(kubeConn, argServiceName)
        kc       == [ZeroKubeConn EXCEPT
                       !.kubeConfig = path, !.kubeClient = TRUE,
                       !.nameSpace = nsName, !.serviceName = service,
                       !.localPort = BlockGet(kubeConn, argLocalPort),
                       !.remotePort = BlockGet(kubeConn, argRemotePort)]
        built    == <<"BuildConfigFromFlags", "NewForConfig">>
        useTLS   == withTLS /\ BlockGet(kubeConn, argUseTLS)
        a        == IF useTLS
                    THEN [ZeroApiClient EXCEPT
                            !.kubeConn = kc,
                            !.url = tunnelAddress(TRUE, kc.localPort),
                            !.tlsConfig = tunnelTlsConfig(kubeConn),
                            !.tlsAdded = TRUE]
                    ELSE [ZeroApiClient EXCEPT
                            !.kubeConn = kc,
                            !.url = tunnelAddress(FALSE, kc.localPort),
                            !.tlsAdded = FALSE]
    IN  IF expand /\ home.err # "" THEN ConfigureFail(home.err, <<>>)
        ELSE IF "BuildConfigFromFlags" \in fail
        THEN ConfigureFail(errBuildConfig, <<"BuildConfigFromFlags">>)
        ELSE IF "NewForConfig" \in fail
        THEN ConfigureFail(errNewForConfig, built)
        ELSE IF validateKube(nsName, service) # ""
        THEN ConfigureFail(validateKube(nsName, service), built)
        ELSE configureClient(a, built, fail)

\* func configure(version, p) of the TLS-aware provider
configure(c, e, fail) ==
    IF Len(c.kube_config) > 0
    THEN configureKube(c.kube_config[1], e, fail, TRUE)
    ELSE configureClient([ZeroApiClient EXCEPT !.url = directAddress(c, e),
                                               !.tlsAdded = FALSE],
                         <<>>, fail)

\* func configure(version, p) of the provider without TLS support: the block
\* has no use_tls field and the address is always http.
configurePlain(c, e, fail) ==
    IF Len(c.kube_config) > 0
    THEN configureKube(c.kube_config[1], e, fail, FALSE)
    ELSE configureClient([ZeroApiClient EXCEPT !.url = directAddress(c, e)],
                         <<>>, fail)

(***************************************************************************)
(* resource_init: the Vault service, as the Init RPC sees it               *)
(***************************************************************************)
argRootToken  == "root_token"
argKeys       == "keys"
argKeysBase64 == "keys_base64"

\* api.InitResponse (the fields the resource uses)
ZeroInitResponse == [Keys |-> <<>>, KeysB64 |-> <<>>, RootToken |-> ""]

errAlreadyInitialized == "Vault is already initialized"
errInvalidSeal        == "invalid seal configuration"
errTransport          == "connection refused"

\* client.client.Sys().Init(&req): v is the service, answer the response the
\* service would give to a valid first request, down whether it is unreachable.
SysInit(v, req, answer, down) ==
    IF down THEN [res |-> ZeroInitResponse, err |-> errTransport, vault |-> v]
    ELSE IF v.initialized
    THEN [res |-> ZeroInitResponse, err |-> errAlreadyInitialized, vault |-> v]
    ELSE IF ~(req.SecretShares >= 1 /\ req.SecretThreshold >= 1
              /\ req.SecretThreshold <= req.SecretShares)
    THEN [res |-> ZeroInitResponse, err |-> errInvalidSeal, vault |-> v]
    ELSE [res |-> answer, err |-> "", vault |-> [v EXCEPT !.initialized = TRUE]]

\* client.client.Address()
Address(client) == client.address

(***************************************************************************)
(* resource_init: the resource                                             *)
(***************************************************************************)
\* schema.ResourceData of a resource that was never created
ZeroResourceData == [id |-> "", root_token |-> "", keys |-> <<>>, keys_base64 |-> <<>>]

\* Variant of updateState: the two key lists are stored under each other's name
updateStateSwapped(rd, id, res) ==
    [rd EXCEPT !.id = id,
               !.root_token = res.RootToken,
               !.keys = res.KeysB64,
               !.keys_base64 = res.Keys]

\* Variant of updateState: keys_base64 is not stored
updateStateNoBase64(rd, id, res) ==
    [rd EXCEPT !.id = id,
               !.root_token = res.RootToken,
               !.keys = res.Keys]

\* func updateState(d, id, res)
updateState(rd, id, res) ==
    [rd EXCEPT !.id = id,
               !.root_token = res.RootToken,
               !.keys = res.Keys,
               !.keys_base64 = res.KeysB64]

NoRpc == [sent |-> FALSE, res |-> ZeroInitResponse, err |-> ""]

\* Variant of resourceInitCreate: an already initialized service counts as
\* a successful create
resourceInitCreateLenient(rd, m, v, shares, threshold, answer, down) ==
    LET client == m
        req    == [SecretShares |-> shares, SecretThreshold |-> threshold]
        r      == SysInit(v, req, answer, down)
        sent   == [sent |-> TRUE, res |-> r.res, err |-> r.err]
    IN  IF r.err = errAlreadyInitialized
        THEN [d |-> rd, diags |-> "", vault |-> r.vault,
              calls |-> <<"Init">>, rpc |-> sent]
        ELSE IF r.err # ""
        THEN [d |-> rd, diags |-> r.err, vault |-> r.vault,
              calls |-> <<"Init">>, rpc |-> sent]
        ELSE [d |-> updateState(rd, Address(client.client), r.res), diags |-> "",
              vault |-> r.vault, calls |-> <<"Init">>, rpc |-> sent]

\* func resourceInitCreate(ctx, d, meta)
resourceInitCreate(rd, m, v, shares, threshold, answer, down) ==
    LET client == m
        req    == [SecretShares |-> shares, SecretThreshold |-> threshold]
        r      == SysInit(v, req, answer, down)
        sent   == [sent |-> TRUE, res |-> r.res, err |-> r.err]
    IN  IF r.err # ""
        THEN [d |-> rd, diags |-> r.err, vault |-> r.vault,
              calls |-> <<"Init">>, rpc |-> sent]
        ELSE [d |-> updateState(rd, Address(client.client), r.res), diags |-> "",
              vault |-> r.vault, calls |-> <<"Init">>, rpc |-> sent]

errNotImplemented == "not implemented"

\* func resourceInitRead(ctx, d, meta)
resourceInitRead(rd, m) == [d |-> rd, diags |-> errNotImplemented]

\* func resourceInitUpdate(ctx, d, meta)
resourceInitUpdate(rd, m) == [d |-> rd, diags |-> errNotImplemented]

\* Variant of resourceInitDelete: the resource is dropped from the state
resourceInitDeleteDrops(rd, m) == [d |-> [rd EXCEPT !.id = ""], diags |-> ""]

\* func resourceInitDelete(ctx, d, meta)
resourceInitDelete(rd, m) == [d |-> rd, diags |-> errNotImplemented]

(***************************************************************************)
(* resource_init: import.  An import id is a sequence of characters over   *)
(* letters, ':' and '/' (no query, fragment, user info, escape or dot).    *)
(***************************************************************************)
LowerLetters == {"f", "i", "l", "e", "h", "t", "p", "v", "x"}
UpperLetters == {"F"}

\* strings.ToLower on one character
ToLowerChar(c) == IF c = "F" THEN "f" ELSE c

\* strings.ToLower
ToLower(str) == [i \in 1..Len(str) |-> ToLowerChar(str[i])]

\* s[from:] with a 1-based first index
Tail1(str, from) == SubSeq(str, from, Len(str))

\* strings.HasPrefix
HasPrefix(str, pre) == Len(str) >= Len(pre) /\ SubSeq(str, 1, Len(pre)) = pre

\* strings.Index(s, c) as a 1-based index, 0 when c does not occur
IndexOf(str, c) ==
    IF \E i \in 1..Len(str) : str[i] = c
    THEN CHOOSE i \in 1..Len(str) : str[i] = c /\ \A j \in 1..(i - 1) : str[j] # c
    ELSE 0

\* net/url getScheme: scan from character i
RECURSIVE getSchemeFrom(_, _)
getSchemeFrom(rawURL, i) ==
    IF i > Len(rawURL) THEN [scheme |-> <<>>, rest |-> rawURL, err |-> ""]
    ELSE IF rawURL[i] \in LowerLetters \cup UpperLetters THEN getSchemeFrom(rawURL, i + 1)
    ELSE IF rawURL[i] = ":"
    THEN IF i = 1 THEN [scheme |-> <<>>, rest |-> <<>>, err |-> "missing protocol scheme"]
         ELSE [scheme |-> SubSeq(rawURL, 1, i - 1), rest |-> Tail1(rawURL, i + 1), err |-> ""]
    ELSE [scheme |-> <<>>, rest |-> rawURL, err |-> ""]

getScheme(rawURL) == getSchemeFrom(rawURL, 1)

ZeroURL == [Scheme |-> <<>>, Opaque |-> <<>>, Host |-> <<>>, Path |-> <<>>, err |-> ""]

\* net/url Parse on the alphabet above
urlParse(rawURL) ==
    LET g      == getScheme(rawURL)
        scheme == ToLower(g.scheme)
        rest   == g.rest
        slash2 == HasPrefix(rest, <<"/", "/">>)
        auth0  == Tail1(rest, 3)
        cut    == IndexOf(auth0, "/")
        host   == IF cut = 0 THEN auth0 ELSE SubSeq(auth0, 1, cut - 1)
        after  == IF cut = 0 THEN <<>> ELSE Tail1(auth0, cut)
        seg    == IF IndexOf(rest, "/") = 0 THEN rest
                  ELSE SubSeq(rest, 1, IndexOf(rest, "/") - 1)
    IN  IF g.err # "" THEN [ZeroURL EXCEPT !.err = g.err]
        ELSE IF ~HasPrefix(rest, <<"/">>) /\ scheme # <<>>
        THEN [ZeroURL EXCEPT !.Scheme = scheme, !.Opaque = rest]
        ELSE IF ~HasPrefix(rest, <<"/">>) /\ IndexOf(seg, ":") # 0
        THEN [ZeroURL EXCEPT !.err = "first path segment in URL cannot contain colon"]
        ELSE IF (scheme # <<>> \/ ~HasPrefix(rest, <<"/", "/", "/">>)) /\ slash2
        THEN [ZeroURL EXCEPT !.Scheme = scheme, !.Host = host, !.Path = after]
        ELSE [ZeroURL EXCEPT !.Scheme = scheme, !.Path = rest]

\* path/filepath Clean on a path without dots: repeated separators collapse
\* and a trailing separator is dropped, except for the root
RECURSIVE Squeeze(_)
Squeeze(path) ==
    IF Len(path) < 2 THEN path
    ELSE IF path[1] = "/" /\ path[2] = "/" THEN Squeeze(Tail(path))
    ELSE <<path[1]>> \o Squeeze(Tail(path))

Clean(path) ==
    LET sq == Squeeze(path)
    IN  IF Len(sq) > 1 /\ sq[Len(sq)] = "/" THEN SubSeq(sq, 1, Len(sq) - 1) ELSE sq

\* Variant of filepathJoin: the host component is left out
filepathJoinPathOnly(a, b) == Clean(b)

\* filepath.Join(u.Host, u.Path): empty elements are ignored
filepathJoin(a, b) ==
    IF a = <<>> /\ b = <<>> THEN <<>>
    ELSE IF a = <<>> THEN Clean(b)
    ELSE IF b = <<>> THEN Clean(a)
    ELSE Clean(a \o <<"/">> \o b)

\* Content of a file as JSON text: kind is "object", "array", "null" or
\* "malformed"; an object has the members named in has, those named in bad
\* holding a value of the wrong JSON type.
fieldNames == {argKeys, argKeysBase64, argRootToken}

\* json.Unmarshal(fc, &initResponse)
Unmarshal(fc) ==
    IF fc.kind = "malformed"
    THEN [v |-> ZeroInitResponse, err |-> "invalid character"]
    ELSE IF fc.kind = "array"
    THEN [v |-> ZeroInitResponse, err |-> "json: cannot unmarshal array"]
    ELSE IF fc.kind = "null"
    THEN [v |-> ZeroInitResponse, err |-> ""]
    ELSE IF fc.has \cap fc.bad # {}
    THEN [v |-> ZeroInitResponse, err |-> "json: cannot unmarshal number"]
    ELSE [v |-> [Keys      |-> IF argKeys \in fc.has THEN fc.keys ELSE <<>>,
                 KeysB64   |-> IF argKeysBase64 \in fc.has THEN fc.keys_base64 ELSE <<>>,
                 RootToken |-> IF argRootToken \in fc.has THEN fc.root_token ELSE ""],
          err |-> ""]

NoFile == [kind |-> "malformed", has |-> {}, bad |-> {}, keys |-> <<>>,
           keys_base64 |-> <<>>, root_token |-> ""]

NoRead == [read |-> FALSE, path |-> <<>>, ok |-> FALSE, content |-> NoFile]

errUnsupportedScheme == "unsupported scheme"
errReadFile          == "open: no such file or directory"

\* Variant of unsupportedScheme: an id without a scheme is read as a file
unsupportedSchemeBarePath(u) ==
    u.Scheme # <<"f", "i", "l", "e">> /\ u.Scheme # <<>>

\* resourceInitImporter: the test u.Scheme != "file"
unsupportedScheme(u) == u.Scheme # <<"f", "i", "l", "e">>

\* ioutil.ReadFile(path) when `file` is what the file system holds there:
\* the empty path names no file.
ReadFile(path, file) ==
    IF path = <<>> THEN [ok |-> FALSE, content |-> NoFile] ELSE file

\* func resourceInitImporter(c, d, meta): rd.id is the import id; file is
\* what the file system holds at the path that is read.
resourceInitImporter(rd, m, file) ==
    LET client == m
        id     == rd.id
        u      == urlParse(id)
        path   == filepathJoin(u.Host, u.Path)
        fc     == ReadFile(path, file)
        fr     == [read |-> TRUE, path |-> path, ok |-> fc.ok, content |-> fc.content]
        dec    == Unmarshal(fc.content)
    IN  IF u.err # ""
        THEN [ds |-> <<>>, err |-> u.err, calls |-> <<>>, fileRead |-> NoRead]
        ELSE IF unsupportedScheme(u)
        THEN [ds |-> <<>>, err |-> errUnsupportedScheme, calls |-> <<>>, fileRead |-> NoRead]
        ELSE IF ~fc.ok
        THEN [ds |-> <<>>, err |-> errReadFile, calls |-> <<"ReadFile">>, fileRead |-> fr]
        ELSE IF dec.err # ""
        THEN [ds |-> <<>>, err |-> dec.err, calls |-> <<"ReadFile">>, fileRead |-> fr]
        ELSE [ds |-> <<updateState(rd, Address(client.client), dec.v)>>, err |-> "",
              calls |-> <<"ReadFile">>, fileRead |-> fr]

(***************************************************************************)
(* Inputs                                                                  *)
(***************************************************************************)
\* Library calls of configure that can return an error
LibCalls == {"BuildConfigFromFlags", "NewForConfig", "ConfigureTLS", "NewClient"}

Envs == [VAULT_ADDR : {"", "http://e:8200"}, HOME : {"", "/home/u"}]

blockArgs == {argKubeConfigPath, argNameSpace, argServiceName, argLocalPort,
              argRemotePort} \cup tlsArgs

\* Values a block gives to the fields it sets
BlockValues(useTLS) ==
    [path             |-> <<"/k/config">>,
     namespace        |-> "vault",
     service          |-> "vault-svc",
     local_port       |-> "8300",
     remote_port      |-> "8201",
     use_tls          |-> useTLS,
     ca_cert          |-> "/ca.pem",
     client_cert      |-> "/client.pem",
     client_key       |-> "/client.key",
     use_insecure_tls |-> FALSE]

tlsMaterial == {argCaCert, argClientCert, argClientKey, argInsecureTLS}

\* kube_config blocks: any set of fields given, the TLS material all or none
KubeBlocks ==
    { [given |-> g, v |-> BlockValues(t)] :
        <<g, t>> \in { x \in (SUBSET blockArgs) \X BOOLEAN :
                         /\ argRemotePort \notin x[1]
                         /\ (tlsMaterial \subseteq x[1] \/ tlsMaterial \cap x[1] = {})
                         /\ (argUseTLS \notin x[1] => x[2]) } }

\* Blocks the provider without TLS support accepts
PlainKubeBlocks == { b \in KubeBlocks : b.given \cap tlsArgs = {} }

Configs(blocks) ==
    [vault_addr  : {"", "http://a:8200"},
     vault_url   : {"", "http://u:8200"},
     kube_config : {<<>>} \cup { <<b>> : b \in blocks }]

AllConfigs   == Configs(KubeBlocks)
PlainConfigs == Configs(PlainKubeBlocks)

\* Configurations the resource operations are explored under
ResourceBlocks ==
    { b \in KubeBlocks :
        /\ {argNameSpace, argServiceName} \subseteq b.given
        /\ b.given \subseteq {argNameSpace, argServiceName, argUseTLS} }

ResourceConfigs ==
    { c \in Configs(ResourceBlocks) :
        /\ c.vault_url = ""
        /\ c.vault_addr # "" => c.kube_config = <<>> }

ResourceEnvs == { e \in Envs : e.VAULT_ADDR # "" /\ e.HOME # "" }

Tokens  == {"t1"}
KeyVals == {"k1", "k2"}

\* base64 form of a key
B64(k) == IF k = "k1" THEN "a2k=" ELSE "azI="

\* Responses the service can give to a request for n shares: n keys, each
\* also in base64, and a root token
Answers(n) ==
    { [Keys |-> ks, KeysB64 |-> [i \in 1..n |-> B64(ks[i])], RootToken |-> t] :
        ks \in [1..n -> KeyVals], t \in Tokens }

ImportIds ==
    { <<"f","i","l","e",":","/","/","/","x">>,          \* file:///x
      <<"f","i","l","e",":","/","/","v","/","x">>,      \* file://v/x
      <<"f","i","l","e",":","/","/","v">>,              \* file://v
      <<"F","i","l","e",":","/","/","/","x","/">>,      \* File:///x/
      <<"f","i","l","e",":","x">>,                      \* file:x
      <<"h","t","t","p",":","/","/","h","/","x">>,      \* http://h/x
      <<"/","x">>,                                      \* /x
      <<"x">>,                                          \* x
      <<":","x">> }                                     \* :x

FileResponse1 == [Keys |-> <<"k1">>, KeysB64 |-> <<"a2k=">>, RootToken |-> "t1"]
FileResponse2 == [Keys |-> <<"k2", "k1">>, KeysB64 |-> <<"azI=", "a2k=">>, RootToken |-> "t2"]
FileResponses == {FileResponse1, FileResponse2}

ObjectOf(r, has, bad) ==
    [kind |-> "object", has |-> has, bad |-> bad,
     keys        |-> IF argKeys \in has \ bad THEN r.Keys ELSE <<>>,
     keys_base64 |-> IF argKeysBase64 \in has \ bad THEN r.KeysB64 ELSE <<>>,
     root_token  |-> IF argRootToken \in has \ bad THEN r.RootToken ELSE ""]

FileContents ==
    { ObjectOf(r, fieldNames, {}) : r \in FileResponses }
    \cup { ObjectOf(r, has, {}) : r \in {FileResponse1}, has \in SUBSET fieldNames }
    \cup { ObjectOf(r, fieldNames, {argKeys}) : r \in {FileResponse1} }
    \cup { [NoFile EXCEPT !.kind = k] : k \in {"malformed", "array", "null"} }

\* What ioutil.ReadFile can find at a path: no readable file, or a file
Files == {[ok |-> FALSE, content |-> NoFile]}
         \cup { [ok |-> TRUE, content |-> c] : c \in FileContents }

(***************************************************************************)
(* State machine                                                           *)
(***************************************************************************)
NoEnv    == [VAULT_ADDR |-> "", HOME |-> ""]
NoConfig == [vault_addr |-> "", vault_url |-> "", kube_config |-> <<>>]

Init ==
    /\ cfg = NoConfig
    /\ env = NoEnv
    /\ meta = NilApiClient
    /\ tlsArg = NoTLS
    /\ d = ZeroResourceData
    /\ vault = [initialized |-> FALSE]
    /\ op = "none"
    /\ diags = ""
    /\ calls = <<>>
    /\ rpc = NoRpc
    /\ fileRead = NoRead
    /\ importId = <<>>
    /\ imported = 0

\* The engine configures the provider once per process; later operations
\* receive the returned *apiClient as meta.
Configured(c, e, r) ==
    /\ cfg' = c
    /\ env' = e
    /\ meta' = r.a
    /\ tlsArg' = r.tls
    /\ op' = "configure"
    /\ diags' = r.diags
    /\ calls' = r.calls
    /\ UNCHANGED <<d, vault, rpc, fileRead, importId, imported>>

Configure(cfgs, envs) ==
    /\ op = "none"
    /\ \E c \in cfgs, e \in envs, fail \in SUBSET LibCalls :
          Configured(c, e, configure(c, e, fail))

ConfigurePlain(cfgs, envs) ==
    /\ op = "none"
    /\ \E c \in cfgs, e \in envs, fail \in SUBSET LibCalls :
          Configured(c, e, configurePlain(c, e, fail))

Create ==
    /\ ~meta.nil
    /\ \E shares \in 0..MaxShares, threshold \in 0..MaxShares, down \in BOOLEAN :
         \E answer \in IF down THEN {ZeroInitResponse} ELSE Answers(shares) :
            LET r == resourceInitCreate(d, meta, vault, shares, threshold, answer, down)
            IN  /\ d' = r.d
                /\ diags' = r.diags
                /\ vault' = r.vault
                /\ calls' = r.calls
                /\ rpc' = r.rpc
    /\ op' = "create"
    /\ fileRead' = NoRead
    /\ importId' = <<>>
    /\ imported' = 0
    /\ UNCHANGED <<cfg, env, meta, tlsArg>>

Stub(name, r) ==
    /\ ~meta.nil
    /\ d' = r.d
    /\ diags' = r.diags
    /\ op' = name
    /\ calls' = <<>>
    /\ rpc' = NoRpc
    /\ fileRead' = NoRead
    /\ importId' = <<>>
    /\ imported' = 0
    /\ UNCHANGED <<cfg, env, meta, tlsArg, vault>>

Read   == Stub("read", resourceInitRead(d, meta))
Update == Stub("update", resourceInitUpdate(d, meta))
Delete == Stub("delete", resourceInitDelete(d, meta))

\* terraform import: the engine hands the importer a fresh ResourceData whose
\* id is the import id and adopts the resources it returns.
Import ==
    /\ ~meta.nil
    /\ \E id \in ImportIds, file \in Files :
         LET r == resourceInitImporter([ZeroResourceData EXCEPT !.id = id], meta, file)
         IN  /\ d' = IF r.err = "" /\ Len(r.ds) > 0 THEN r.ds[1] ELSE d
             /\ diags' = r.err
             /\ calls' = r.calls
             /\ fileRead' = r.fileRead
             /\ imported' = Len(r.ds)
             /\ importId' = id
    /\ op' = "import"
    /\ rpc' = NoRpc
    /\ UNCHANGED <<cfg, env, meta, tlsArg, vault>>

Next ==
    \/ Configure(ResourceConfigs, ResourceEnvs)
    \/ Create
    \/ Read
    \/ Update
    \/ Delete
    \/ Import

Spec == Init /\ [][Next]_vars

\* The provider's configuration on its own, over every configuration
NextConfigure ==
    \/ Configure(AllConfigs, Envs)
    \/ ConfigurePlain(PlainConfigs, Envs)

SpecConfigure == Init /\ [][NextConfigure]_vars

(***************************************************************************)
(* Properties of configure                                                 *)
(***************************************************************************)
HasTunnel == Len(cfg.kube_config) > 0
Block     == cfg.kube_config[1]

\* Errors of configure that come from the cluster configuration: the home
\* directory, the cluster config and the cluster client
clusterErrors == {"unable to get HOME directory", errBuildConfig, errNewForConfig}

\* C1: with no kube_config block, the address is vault_addr if non-empty,
\* else vault_url if non-empty, else VAULT_ADDR; when all three are empty
\* configure fails with the configuration error and returns no handle.  A
\* handle, when one is returned, is bound to exactly that address.
C1_DirectAddressPriority ==
    (op = "configure" /\ ~HasTunnel) =>
        /\ (cfg.vault_addr = "" /\ cfg.vault_url = "" /\ env.VAULT_ADDR = "")
              => (meta.nil /\ diags = errNoAddress /\ calls = <<>>)
        /\ ~(cfg.vault_addr = "" /\ cfg.vault_url = "" /\ env.VAULT_ADDR = "")
              => /\ diags \in {"", errNewClient}
                 /\ diags = "" <=> ~meta.nil
        /\ ~meta.nil =>
              /\ meta.url = Address(meta.client)
              /\ cfg.vault_addr # "" => meta.url = cfg.vault_addr
              /\ (cfg.vault_addr = "" /\ cfg.vault_url # "") => meta.url = cfg.vault_url
              /\ (cfg.vault_addr = "" /\ cfg.vault_url = "") => meta.url = env.VAULT_ADDR

C1_Witness ==
    /\ op = "configure" /\ ~HasTunnel /\ ~meta.nil
    /\ cfg.vault_addr # "" /\ cfg.vault_url # "" /\ env.VAULT_ADDR # ""
    /\ meta.url = cfg.vault_addr

\* The address a tunnel must resolve to
ExpectedScheme == IF argUseTLS \in Block.given /\ Block.v.use_tls THEN "https" ELSE "http"
ExpectedPort   == IF argLocalPort \in Block.given THEN Block.v.local_port ELSE "8200"

\* C2: a kube_config block with non-empty namespace and service whose cluster
\* config builds resolves to <scheme>://localhost:<local_port>, https iff
\* use_tls, port 8200 when unspecified, whatever vault_addr, vault_url and
\* VAULT_ADDR are.
C2_TunnelAddress ==
    (/\ op = "configure" /\ HasTunnel
     /\ BlockGet(Block, argNameSpace) # "" /\ BlockGet(Block, argServiceName) # ""
     /\ diags \notin clusterErrors) =>
        /\ diags \in {"", errConfigureTLS, errNewClient}
        /\ diags = "" <=> ~meta.nil
        /\ ~meta.nil =>
              /\ meta.url = ExpectedScheme \o "://localhost:" \o ExpectedPort
              /\ Address(meta.client) = meta.url

C2_Witness ==
    /\ op = "configure" /\ HasTunnel /\ ~meta.nil
    /\ cfg.vault_addr # "" /\ cfg.vault_url # "" /\ env.VAULT_ADDR # ""
    /\ argUseTLS \in Block.given /\ Block.v.use_tls
    /\ argLocalPort \notin Block.given
    /\ meta.url = "https://localhost:8200"

\* C9 as stated: a kube_config block with an empty namespace makes configure
\* fail with the missing-namespace error, with no handle and before any
\* construction of the Vault client.
C9_AsStated ==
    (op = "configure" /\ HasTunnel /\ BlockGet(Block, argNameSpace) = "") =>
        /\ diags = errNamespace
        /\ meta.nil
        /\ \A i \in 1..Len(calls) : calls[i] \notin {"ConfigureTLS", "NewClient"}

\* C9 amended: a kube_config block with an empty namespace makes configure
\* fail, with no handle and before any construction of the Vault client; the
\* error is the missing-namespace error unless the home directory, the
\* cluster config or the cluster client failed first, whose error is then
\* the one returned.
C9_EmptyNamespaceFails ==
    (op = "configure" /\ HasTunnel /\ BlockGet(Block, argNameSpace) = "") =>
        /\ diags \in clusterErrors \cup {errNamespace}
        /\ meta.nil
        /\ \A i \in 1..Len(calls) : calls[i] \notin {"ConfigureTLS", "NewClient"}
        /\ diags = errNamespace => calls = <<"BuildConfigFromFlags", "NewForConfig">>
        /\ ("NewForConfig" \in {calls[i] : i \in 1..Len(calls)}
             /\ diags # errNewForConfig) => diags = errNamespace

C9_Witness ==
    /\ op = "configure" /\ HasTunnel
    /\ argNameSpace \notin Block.given /\ argServiceName \in Block.given
    /\ diags = errNamespace /\ meta.nil
    /\ calls = <<"BuildConfigFromFlags", "NewForConfig">>

\* C10: with use_tls = true the TLS configuration applied to the handle
\* carries the block's ca_cert, client_cert, client_key and use_insecure_tls
\* and the handle is recorded as requiring TLS; with use_tls false or no
\* tunnel no TLS configuration is applied.
C10_TlsCarriedForward ==
    op = "configure" =>
        /\ (HasTunnel /\ tlsArg.applied) =>
              /\ BlockGet(Block, argUseTLS)
              /\ argCaCert \in Block.given => tlsArg.CACert = Block.v.ca_cert
              /\ argClientCert \in Block.given => tlsArg.ClientCert = Block.v.client_cert
              /\ argClientKey \in Block.given => tlsArg.ClientKey = Block.v.client_key
              /\ tlsArg.Insecure = BlockGet(Block, argInsecureTLS)
        /\ (HasTunnel /\ ~meta.nil /\ BlockGet(Block, argUseTLS)) =>
              (meta.tlsAdded /\ tlsArg.applied /\ meta.client.tls = tlsArg)
        /\ (~HasTunnel \/ ~BlockGet(Block, argUseTLS)) => ~tlsArg.applied

(***************************************************************************)
(* Properties of the init resource                                         *)
(***************************************************************************)
\* C3: read, update and delete return "not implemented" and leave the
\* resource id, root_token, keys and keys_base64 as they were.
C3_StubsNotImplemented ==
    [][op' \in {"read", "update", "delete"} =>
          (diags' = errNotImplemented /\ d' = d)]_vars

C3_Witness ==
    /\ op = "delete" /\ diags = errNotImplemented
    /\ d.id # "" /\ d.root_token # "" /\ d.keys # <<>> /\ d.keys_base64 # <<>>

\* C4: a create issues exactly one Init RPC and returns the service's error
\* unchanged; a create against a service that an earlier create initialized
\* fails with that error and leaves id, root_token, keys and keys_base64 as
\* the earlier create wrote them.
C4_CreateOnceNoRetry ==
    [][op' = "create" =>
          /\ calls' = <<"Init">>
          /\ rpc'.sent
          /\ diags' = rpc'.err
          /\ rpc'.err # "" => d' = d
          /\ vault.initialized => (diags' # "" /\ d' = d)]_vars

C4_Witness ==
    /\ op = "create" /\ diags = errAlreadyInitialized /\ vault.initialized
    /\ d.id # "" /\ d.root_token # "" /\ Len(d.keys) = 2 /\ Len(d.keys_base64) = 2

\* Import ids of the model by what they are as URIs
FileHostPathIds ==
    { <<"f","i","l","e",":","/","/","/","x">>,
      <<"f","i","l","e",":","/","/","v","/","x">>,
      <<"f","i","l","e",":","/","/","v">> }

OtherSchemeIds ==
    { <<"h","t","t","p",":","/","/","h","/","x">>,
      <<"/","x">>,
      <<"x">> }

\* C5: an import id that parses as a URI with a scheme other than file (or
\* with no scheme) fails with "unsupported scheme", reads no file and sets
\* no resource state.
C5_UnsupportedScheme ==
    [][(op' = "import" /\ importId' \in OtherSchemeIds) =>
          /\ diags' = errUnsupportedScheme
          /\ calls' = <<>>
          /\ ~fileRead'.read
          /\ imported' = 0
          /\ d' = d]_vars

C5_Witness ==
    /\ op = "import" /\ importId = <<"/", "x">>
    /\ diags = errUnsupportedScheme /\ calls = <<>>
    /\ d.id # "" /\ d.root_token # ""

\* The file path a file://<host><path> id names: host and path joined
ExpectedPath(id) ==
    IF id = <<"f","i","l","e",":","/","/","/","x">> THEN <<"/", "x">>
    ELSE IF id = <<"f","i","l","e",":","/","/","v","/","x">> THEN <<"v", "/", "x">>
    ELSE <<"v">>

\* A JSON object with keys, keys_base64 and root_token, all of the right type
CompleteObject(c) == c.kind = "object" /\ c.has = fieldNames /\ c.bad = {}

\* C6: importing file://<host><path> where that path holds a readable JSON
\* object with keys, keys_base64 and root_token reads the file at host+path
\* and returns one resource whose id is the address of the client handle and
\* whose root_token, keys and keys_base64 are the file's.  (The file is
\* known through the read: an import of such an id that reads nothing, or
\* reads elsewhere, fails the property.)
C6_ImportFromFile ==
    (/\ op = "import" /\ importId \in FileHostPathIds
     /\ (fileRead.read => (fileRead.ok /\ CompleteObject(fileRead.content)))) =>
        /\ diags = ""
        /\ calls = <<"ReadFile">>
        /\ fileRead.read
        /\ fileRead.path = ExpectedPath(importId)
        /\ imported = 1
        /\ d.id = Address(meta.client)
        /\ d.root_token = fileRead.content.root_token
        /\ d.keys = fileRead.content.keys
        /\ d.keys_base64 = fileRead.content.keys_base64

C6_Witness ==
    /\ op = "import" /\ importId = <<"f","i","l","e",":","/","/","v","/","x">>
    /\ fileRead.ok /\ fileRead.path = <<"v", "/", "x">>
    /\ imported = 1 /\ diags = ""
    /\ d.id = "https://localhost:8200"
    /\ d.root_token = "t2" /\ d.keys = <<"k2", "k1">> /\ d.keys_base64 = <<"azI=", "a2k=">>

\* C7: after a successful create the resource id is the address of the
\* client handle and root_token, keys and keys_base64 read back exactly as
\* the Init RPC returned them: same length, elements and order.
C7_CreateRoundTrip ==
    (op = "create" /\ diags = "") =>
        /\ rpc.sent /\ rpc.err = ""
        /\ d.id = Address(meta.client)
        /\ d.root_token = rpc.res.RootToken
        /\ Len(d.keys) = Len(rpc.res.Keys)
        /\ \A i \in 1..Len(d.keys) : d.keys[i] = rpc.res.Keys[i]
        /\ Len(d.keys_base64) = Len(rpc.res.KeysB64)
        /\ \A i \in 1..Len(d.keys_base64) : d.keys_base64[i] = rpc.res.KeysB64[i]

C7_Witness ==
    /\ op = "create" /\ diags = ""
    /\ d.id = "http://a:8200" /\ d.root_token = "t1"
    /\ d.keys = <<"k2", "k1">> /\ d.keys_base64 = <<"azI=", "a2k=">>

\* The one source a create or an import took its three fields from
SourceOf(o, r, f) ==
    IF o = "create" THEN r.res
    ELSE [Keys |-> f.content.keys, KeysB64 |-> f.content.keys_base64,
          RootToken |-> f.content.root_token]

decodeErrors ==
    {"invalid character", "json: cannot unmarshal array", "json: cannot unmarshal number"}

\* C11: importing a file:// id whose file is readable but is not a complete
\* initialization result (malformed JSON, or a JSON value lacking any of
\* keys, keys_base64, root_token) fails with a decoding error and sets no
\* resource state.
C11_IncompleteFileRejected ==
    [][(/\ op' = "import" /\ importId' \in FileHostPathIds
        /\ fileRead'.read /\ fileRead'.ok
        /\ ~CompleteObject(fileRead'.content)) =>
          /\ diags' \in decodeErrors
          /\ imported' = 0
          /\ d' = d]_vars
====
